---- MODULE Spec2Model ----
(***************************************************************************)
(* Model of parse_raw_html/parse_html.py: the three per-publication field  *)
(* extractors (egind, ahram, dne), Article.write_to_db and the run loop.   *)
(*                                                                         *)
(* Text is a sequence of one-character strings, so that the string         *)
(* operations of the extractors (re.split, str.replace, str.strip,         *)
(* startswith, indexing) are computed as Python computes them.             *)
(***************************************************************************)
EXTENDS Integers, Sequences, FiniteSets, TLC

\* ------------------------------------------------------------------------
\* Bounds of the model
\* ------------------------------------------------------------------------

\* Largest number of files the glob of the run loop returns.
MaxFiles == 3

\* ------------------------------------------------------------------------
\* Characters and Python string primitives
\* ------------------------------------------------------------------------

NL == "\n"

NBSP == "nbsp"

\* Characters str.strip() and str.split() treat as whitespace.
Whitespace == {" ", NL, "\t", NBSP}

\* str.lower() on one character.
LowerChar(c) ==
  CASE c = "A" -> "a" [] c = "B" -> "b" [] c = "C" -> "c" [] c = "D" -> "d"
    [] c = "E" -> "e" [] c = "F" -> "f" [] c = "G" -> "g" [] c = "H" -> "h"
    [] c = "I" -> "i" [] c = "J" -> "j" [] c = "K" -> "k" [] c = "L" -> "l"
    [] c = "M" -> "m" [] c = "N" -> "n" [] c = "O" -> "o" [] c = "P" -> "p"
    [] c = "Q" -> "q" [] c = "R" -> "r" [] c = "S" -> "s" [] c = "T" -> "t"
    [] c = "U" -> "u" [] c = "V" -> "v" [] c = "W" -> "w" [] c = "X" -> "x"
    [] c = "Y" -> "y" [] c = "Z" -> "z" [] OTHER -> c

\* str.lower()
Lower(s) == [i \in 1..Len(s) |-> LowerChar(s[i])]

\* s[i:] (1-based i)
From(s, i) == SubSeq(s, i, Len(s))

\* Whether literal p occurs in s at position i.
MatchAt(s, i, p) ==
  /\ i + Len(p) - 1 <= Len(s)
  /\ \A k \in 1..Len(p) : s[i + k - 1] = p[k]

\* s.startswith(p)
StartsWith(s, p) == MatchAt(s, 1, p)

\* p in s
Contains(s, p) == \E i \in 1..(Len(s) + 1) : MatchAt(s, i, p)

\* The least and the greatest element of a non-empty set of integers.
MinOf(S) == CHOOSE a \in S : \A b \in S : a <= b

MaxOf(S) == CHOOSE a \in S : \A b \in S : b <= a

\* Positions of s holding a character that is not whitespace.
Inked(s) == {i \in 1..Len(s) : s[i] \notin Whitespace}

\* str.lstrip() and str.rstrip()
LStrip(s) == IF Inked(s) = {} THEN <<>> ELSE From(s, MinOf(Inked(s)))

RStrip(s) == IF Inked(s) = {} THEN <<>> ELSE SubSeq(s, 1, MaxOf(Inked(s)))

\* str.strip()
Strip(s) == LStrip(RStrip(s))

\* Length of the first alternative of pats (tried in order, as a regular
\* expression alternation is) that matches s at i; 0 when none does.
RECURSIVE AltMatchLen(_, _, _)
AltMatchLen(s, i, pats) ==
  IF pats = <<>> THEN 0
  ELSE IF MatchAt(s, i, Head(pats)) THEN Len(Head(pats))
  ELSE AltMatchLen(s, i, Tail(pats))

\* Positions from i on where one of pats matches.
MatchesFrom(s, i, pats) == {k \in i..Len(s) : AltMatchLen(s, k, pats) > 0}

\* re.split('p1|p2|...', s) for non-empty literal alternatives, from
\* position i: the text up to the leftmost match is a token, the scan
\* resumes after the match.
RECURSIVE ReSplitFrom(_, _, _)
ReSplitFrom(s, i, pats) ==
  IF MatchesFrom(s, i, pats) = {} THEN <<From(s, i)>>
  ELSE LET k == MinOf(MatchesFrom(s, i, pats))
       IN <<SubSeq(s, i, k - 1)>>
          \o ReSplitFrom(s, k + AltMatchLen(s, k, pats), pats)

ReSplit(s, pats) == ReSplitFrom(s, 1, pats)

\* re.findall('(p1|p2|...)', s): the matches, left to right, not overlapping.
RECURSIVE ReFindAllFrom(_, _, _)
ReFindAllFrom(s, i, pats) ==
  IF MatchesFrom(s, i, pats) = {} THEN <<>>
  ELSE LET k == MinOf(MatchesFrom(s, i, pats))
           m == AltMatchLen(s, k, pats)
       IN <<SubSeq(s, k, k + m - 1)>> \o ReFindAllFrom(s, k + m, pats)

ReFindAll(s, pats) == ReFindAllFrom(s, 1, pats)

\* sep.join(parts)
RECURSIVE JoinRange(_, _, _, _)
JoinRange(sep, parts, lo, hi) ==
  IF lo = hi THEN parts[lo]
  ELSE LET mid == (lo + hi) \div 2
       IN JoinRange(sep, parts, lo, mid) \o sep
          \o JoinRange(sep, parts, mid + 1, hi)

Join(sep, parts) ==
  IF parts = <<>> THEN <<>> ELSE JoinRange(sep, parts, 1, Len(parts))

\* s.split(p) and s.replace(p, r) for a non-empty literal p.
StrSplit(s, p) == ReSplit(s, <<p>>)

StrReplace(s, p, r) == Join(r, StrSplit(s, p))

\* s.split(): the whitespace-delimited words of s.
Words(s) ==
  SelectSeq(ReSplit(s, << <<" ">>, <<NL>>, <<"\t">>, <<NBSP>> >>),
            LAMBDA w : w # <<>>)

\* The set of elements of a sequence.
Range(seq) == {seq[i] : i \in 1..Len(seq)}

\* ------------------------------------------------------------------------
\* Markup: a tag is the text from "<" to the next ">"; an element is an
\* opening tag, its text and its closing tag (the documents of the model
\* nest no element inside one of the same name).
\* ------------------------------------------------------------------------

\* Index of the first ">" after position i, 0 when there is none.
CloseIdx(s, i) ==
  LET closes == {k \in i..Len(s) : s[k] = ">"}
  IN IF closes = {} THEN 0 ELSE MinOf(closes)

\* Whether a tag starts at position i.
TagAt(s, i) == s[i] = "<" /\ CloseIdx(s, i + 1) > 0

\* Positions from i on where a tag starts.
TagsFrom(s, i) == {k \in i..Len(s) : TagAt(s, k)}

\* Name of the tag s[i..j]: "</div>" and "<div class='x'>" are both div.
TagName(s, i, j) ==
  LET parts == ReSplit(SubSeq(s, i + 1, j - 1), << <<" ">>, <<"/">> >>)
      named == SelectSeq(parts, LAMBDA t : t # <<>>)
  IN IF named = <<>> THEN <<>> ELSE Lower(named[1])

\* Whether the tag s[i..j] is a closing tag.
IsClosingTag(s, i, j) == j > i + 1 /\ s[i + 1] = "/"

\* The text nodes of a fragment, in document order (find_all(text=True)).
RECURSIVE TextNodesFrom(_, _)
TextNodesFrom(s, i) ==
  IF TagsFrom(s, i) = {} THEN <<From(s, i)>>
  ELSE LET k == MinOf(TagsFrom(s, i))
       IN <<SubSeq(s, i, k - 1)>> \o TextNodesFrom(s, CloseIdx(s, k + 1) + 1)

\* Article._strip_all_tags: every text node stripped, the blank ones
\* dropped, the rest joined by single spaces.
_strip_all_tags(html) ==
  LET nodes    == TextNodesFrom(html, 1)
      stripped == [k \in 1..Len(nodes) |-> Strip(nodes[k])]
  IN Join(<<" ">>, SelectSeq(stripped, LAMBDA t : t # <<>>))

\* replaceWithChildren on every tag of the given names: the tags go, what
\* they enclose stays.
RECURSIVE UnwrapFrom(_, _, _)
UnwrapFrom(s, i, names) ==
  IF TagsFrom(s, i) = {} THEN From(s, i)
  ELSE LET k == MinOf(TagsFrom(s, i))
           j == CloseIdx(s, k + 1)
       IN IF TagName(s, k, j) \in names
          THEN SubSeq(s, i, k - 1) \o UnwrapFrom(s, j + 1, names)
          ELSE SubSeq(s, i, j) \o UnwrapFrom(s, j + 1, names)

\* Index just after the closing tag of element name opened before i;
\* Len(s) + 1 when it is never closed.
RECURSIVE AfterClose(_, _, _)
AfterClose(s, i, name) ==
  IF TagsFrom(s, i) = {} THEN Len(s) + 1
  ELSE LET k == MinOf(TagsFrom(s, i))
           j == CloseIdx(s, k + 1)
       IN IF IsClosingTag(s, k, j) /\ TagName(s, k, j) = name
          THEN j + 1
          ELSE AfterClose(s, j + 1, name)

\* extract() on every element of the given names: the element goes with
\* all it encloses. <br> encloses nothing.
RECURSIVE ExtractFrom(_, _, _)
ExtractFrom(s, i, names) ==
  IF TagsFrom(s, i) = {} THEN From(s, i)
  ELSE LET k == MinOf(TagsFrom(s, i))
           j == CloseIdx(s, k + 1)
           n == TagName(s, k, j)
       IN IF n \in names /\ ~IsClosingTag(s, k, j)
          THEN IF n = <<"b", "r">> \/ s[j - 1] = "/"
               THEN SubSeq(s, i, k - 1) \o ExtractFrom(s, j + 1, names)
               ELSE SubSeq(s, i, k - 1)
                    \o ExtractFrom(s, AfterClose(s, j + 1, n), names)
          ELSE SubSeq(s, i, j) \o ExtractFrom(s, j + 1, names)

TagScript == <<"s", "c", "r", "i", "p", "t">>

TagStyle == <<"s", "t", "y", "l", "e">>

TagBr == <<"b", "r">>

TagDiv == <<"d", "i", "v">>

\* Article._strip_extra_tags
_strip_extra_tags(html) ==
  ExtractFrom(html, 1, {TagScript, TagStyle, TagBr, TagDiv})

\* Article._strip_again
_strip_again(html) == UnwrapFrom(html, 1, {TagScript, TagBr, TagDiv})

\* ------------------------------------------------------------------------
\* Literals of the source and the texts of the documents of the model
\* ------------------------------------------------------------------------

DateEgindGood ==
  <<"M", "o", "n", ",", " ", "0", "5", "/", "0", "8", "/", "2", "0", "1",
    "3", " ", "-", " ", "0", "8", ":", "0", "0">>

DateEgindAllDay ==
  <<"M", "o", "n", ",", " ", "0", "5", "/", "0", "8", "/", "2", "0", "1",
    "3", " ", "-", " ", "(", "A", "l", "l", " ", "d", "a", "y", ")">>

DateAhramGood ==
  <<"M", "o", "n", "d", "a", "y", " ", "5", " ", "A", "u", "g", " ", "2",
    "0", "1", "3">>

DateAhramAbbrev ==
  <<"M", "o", "n", " ", "5", " ", "A", "u", "g", " ", "2", "0", "1", "3">>

DateDneGood ==
  <<"A", "u", "g", "u", "s", "t", " ", "5", ",", " ", "2", "0", "1", "3">>

DateDneDayFirst ==
  <<"5", " ", "A", "u", "g", "u", "s", "t", " ", "2", "0", "1", "3">>

Reuters ==
  <<"R", "e", "u", "t", "e", "r", "s">>

AFP ==
  <<"A", "F", "P">>

AhramOnline ==
  <<"A", "h", "r", "a", "m", " ", "O", "n", "l", "i", "n", "e">>

Jadaliyya ==
  <<"J", "a", "d", "a", "l", "i", "y", "y", "a">>

JaneDoe ==
  <<"J", "a", "n", "e", " ", "D", "o", "e">>

JohnSmith ==
  <<"J", "o", "h", "n", " ", "S", "m", "i", "t", "h">>

WireReports ==
  <<"w", "i", "r", "e", " ", "r", "e", "p", "o", "r", "t", "s">>

DailyNewsEgypt ==
  <<"D", "a", "i", "l", "y", " ", "N", "e", "w", "s", " ", "E", "g", "y",
    "p", "t">>

TagEgypt ==
  <<"e", "g", "y", "p", "t">>

TagNgos ==
  <<"n", "g", "o", "s">>

LitBy ==
  <<"B", "y">>

LitBySpace ==
  <<"B", "y", " ">>

LitByNbsp ==
  <<"B", "y", NBSP>>

LitAnd ==
  <<"a", "n", "d">>

LitOpinionPath ==
  <<"/", "o", "p", "i", "n", "i", "o", "n", "/">>

LitOpinionDash ==
  <<"O", "p", "i", "n", "i", "o", "n", " ", "-">>

LitOpinion ==
  <<"O", "p", "i", "n", "i", "o", "n">>

LitTranslat ==
  <<"t", "r", "a", "n", "s", "l", "a", "t">>

LitShortLink ==
  <<"S", "h", "o", "r", "t", " ", "l", "i", "n", "k", ":", " ">>

LitSearchWord ==
  <<"s", "e", "a", "r", "c", "h", "_", "w", "o", "r", "d">>

LitSearchKeywords ==
  <<"S", "e", "a", "r", "c", "h", " ", "K", "e", "y", "w", "o", "r", "d",
    "s", ":", " ">>

LitTaggedWith ==
  <<"T", "a", "g", "g", "e", "d", " ", "W", "i", "t", "h", ":">>

LitRelatedPosts ==
  <<"<", "p", ">", "R", "e", "l", "a", "t", "e", "d", " ", "p", "o", "s",
    "t", "s", ":">>

LitCdata ==
  <<"/", "/", "]", "]", "&", "g", "t", ";">>

LitValueAttr ==
  <<"v", "a", "l", "u", "e", "=", "\"">>

LitHttp ==
  <<"h", "t", "t", "p">>

AhramUrlPrefix ==
  <<"h", "t", "t", "p", ":", "/", "/", "e", "n", "g", "l", "i", "s", "h",
    ".", "a", "h", "r", "a", "m", ".", "o", "r", "g", ".", "e", "g", "/",
    "N", "e", "w", "s", "/">>

AhramUrlSuffix ==
  <<".", "a", "s", "p", "x">>

UrlEgindNews ==
  <<"h", "t", "t", "p", ":", "/", "/", "e", "i", ".", "c", "o", "m", "/",
    "n", "e", "w", "s", "/", "n", "g", "o", "-", "l", "a", "w">>

UrlEgindOpinion ==
  <<"h", "t", "t", "p", ":", "/", "/", "e", "i", ".", "c", "o", "m", "/",
    "o", "p", "i", "n", "i", "o", "n", "/", "b", "e", "y", "o", "n", "d">>

UrlEgindOpinion2 ==
  <<"h", "t", "t", "p", ":", "/", "/", "e", "i", ".", "c", "o", "m", "/",
    "o", "p", "i", "n", "i", "o", "n", "/", "a", "i", "d">>

UrlDneNews ==
  <<"h", "t", "t", "p", ":", "/", "/", "d", "n", "e", ".", "c", "o", "m",
    "/", "n", "g", "o", "-", "t", "r", "i", "a", "l">>

UrlDneOpinion ==
  <<"h", "t", "t", "p", ":", "/", "/", "d", "n", "e", ".", "c", "o", "m",
    "/", "b", "y", "-", "j", "a", "n", "e">>

UrlDneBio ==
  <<"h", "t", "t", "p", ":", "/", "/", "d", "n", "e", ".", "c", "o", "m",
    "/", "b", "i", "o">>

UrlDneCdata ==
  <<"h", "t", "t", "p", ":", "/", "/", "d", "n", "e", ".", "c", "o", "m",
    "/", "c", "d", "a", "t", "a">>

UrlDneNoTags ==
  <<"h", "t", "t", "p", ":", "/", "/", "d", "n", "e", ".", "c", "o", "m",
    "/", "n", "o", "-", "t", "a", "g", "s">>

UrlDneUnsigned ==
  <<"h", "t", "t", "p", ":", "/", "/", "d", "n", "e", ".", "c", "o", "m",
    "/", "u", "n", "s", "i", "g", "n", "e", "d">>

TitleNgoLaw ==
  <<"N", "G", "O", " ", "l", "a", "w">>

TitleAid ==
  <<"A", "i", "d">>

SubtitleText ==
  <<"A", " ", "s", "u", "m", "m", "a", "r", "y">>

ParaText ==
  <<"<", "p", ">", "T", "e", "x", "t", " ", "o", "n", "e", ".", "<", "/",
    "p", ">">>

ParaMore ==
  <<"<", "p", ">", "M", "o", "r", "e", " ", "t", "e", "x", "t", ".", "<",
    "/", "p", ">">>

ParaTranslated ==
  <<"<", "p", ">", "E", "d", "i", "t", "e", "d", " ", "t", "r", "a", "n",
    "s", "l", "a", "t", "i", "o", "n", " ", "f", "r", "o", "m", " ", "A",
    "l", "-", "M", "a", "s", "r", "y", "<", "/", "p", ">">>

ParaByJane ==
  <<"<", "p", ">", "B", "y", " ", "J", "a", "n", "e", " ", "D", "o", "e",
    ",", " ", "J", "o", "h", "n", " ", "S", "m", "i", "t", "h", " ", "a",
    "n", "d", " ", "w", "i", "r", "e", " ", "r", "e", "p", "o", "r", "t",
    "s", "<", "/", "p", ">">>

\* What a script block leaves in the content once its tag is unwrapped.
CdataJunk ==
  <<"v", "a", "r", " ", "x", ";", " ", "/", "/", "]", "]", "&", "g", "t",
    ";">>

ParaCairo ==
  <<"<", "p", ">", "C", "A", "I", "R", "O", ":", " ", "T", "e", "x", "t",
    ".", "<", "/", "p", ">">>

BlobScenario ==
  <<"R", "e", "u", "t", "e", "r", "s", " ", "a", "n", "d", " ", "A", "h",
    "r", "a", "m", " ", "O", "n", "l", "i", "n", "e", " ", "(", "J", "a",
    "d", "a", "l", "i", "y", "y", "a", ")", ",", " ", "M", "o", "n", "d",
    "a", "y", " ", "5", " ", "A", "u", "g", " ", "2", "0", "1", "3">>

BlobOxford ==
  <<"R", "e", "u", "t", "e", "r", "s", ",", " ", "a", "n", "d", " ", "A",
    "F", "P", ",", " ", "M", "o", "n", "d", "a", "y", " ", "5", " ", "A",
    "u", "g", " ", "2", "0", "1", "3">>

BlobOpinion ==
  <<"J", "a", "n", "e", " ", "D", "o", "e", ",", " ", "M", "o", "n", "d",
    "a", "y", " ", "5", " ", "A", "u", "g", " ", "2", "0", "1", "3">>

BlobAbbrev ==
  <<"R", "e", "u", "t", "e", "r", "s", ",", " ", "M", "o", "n", " ", "5",
    " ", "A", "u", "g", " ", "2", "0", "1", "3">>

PageTitleNews ==
  <<"N", "G", "O", " ", "l", "a", "w", " ", "-", " ", "E", "g", "y", "p",
    "t", " ", "-", " ", "A", "h", "r", "a", "m", " ", "O", "n", "l", "i",
    "n", "e">>

PageTitleOpinion ==
  <<"A", "i", "d", " ", "-", " ", "O", "p", "i", "n", "i", "o", "n", " ",
    "-", " ", "A", "h", "r", "a", "m", " ", "O", "n", "l", "i", "n", "e">>

KeywordsBlock ==
  <<"<", "d", "i", "v", " ", "c", "l", "a", "s", "s", "=", "\"", "s", "e",
    "a", "r", "c", "h", "_", "w", "o", "r", "d", "\"", ">", "S", "e", "a",
    "r", "c", "h", " ", "K", "e", "y", "w", "o", "r", "d", "s", ":", " ",
    "E", "g", "y", "p", "t", " ", "|", " ", "N", "G", "O", "s", "<", "/",
    "d", "i", "v", ">">>

InputFull ==
  <<"<", "i", "n", "p", "u", "t", " ", "v", "a", "l", "u", "e", "=", "\"",
    "h", "t", "t", "p", ":", "/", "/", "e", "n", "g", "l", "i", "s", "h",
    ".", "a", "h", "r", "a", "m", ".", "o", "r", "g", ".", "e", "g", "/",
    "N", "e", "w", "s", "/", "5", "7", "8", "3", "1", ".", "a", "s", "p",
    "x", "\"", "/", ">">>

InputNumber ==
  <<"<", "i", "n", "p", "u", "t", " ", "v", "a", "l", "u", "e", "=", "\"",
    "/", "5", "7", "8", "3", "2", "\"", "/", ">">>

InputOpinion ==
  <<"<", "i", "n", "p", "u", "t", " ", "v", "a", "l", "u", "e", "=", "\"",
    "/", "5", "7", "8", "3", "3", "\"", "/", ">">>

CrumbsNews ==
  <<"<", "a", ">", "H", "o", "m", "e", "<", "/", "a", ">", " ", "P", "o",
    "l", "i", "t", "i", "c", "s">>

CrumbsOpinion ==
  <<"<", "a", ">", "H", "o", "m", "e", "<", "/", "a", ">", " ", "O", "p",
    "i", "n", "i", "o", "n">>

TagLiEgypt ==
  <<"<", "l", "i", ">", "T", "a", "g", "g", "e", "d", " ", "W", "i", "t",
    "h", ":", " ", "E", "g", "y", "p", "t", ",", " ", "N", "G", "O", "s",
    "<", "/", "l", "i", ">">>

TagLiOther ==
  <<"<", "l", "i", ">", "F", "i", "l", "e", "d", " ", "U", "n", "d", "e",
    "r", ":", " ", "P", "o", "l", "i", "t", "i", "c", "s", "<", "/", "l",
    "i", ">">>

EgindTagEgypt ==
  <<"E", "g", "y", "p", "t">>

EgindTagEgyptPadded ==
  <<" ", "e", "g", "y", "p", "t", " ">>

EgindTagNgos ==
  <<"N", "G", "O", "s">>

\* ------------------------------------------------------------------------
\* datetime.strptime: the date texts of the model that match each format
\* (a text outside the set raises ValueError).
\* ------------------------------------------------------------------------

FmtEgind == "%a, %d/%m/%Y - %H:%M"

FmtAhram == "%A %d %b %Y"

FmtDne == "%B %d, %Y"

DateTable ==
  { [fmt |-> FmtEgind, text |-> DateEgindGood, date |-> <<2013, 8, 5, 8, 0>>],
    [fmt |-> FmtAhram, text |-> DateAhramGood, date |-> <<2013, 8, 5, 0, 0>>],
    [fmt |-> FmtDne,   text |-> DateDneGood,   date |-> <<2013, 8, 5, 0, 0>>] }

strptime_matches(text, fmt) ==
  \E r \in DateTable : r.fmt = fmt /\ r.text = text

strptime(text, fmt) ==
  (CHOOSE r \in DateTable : r.fmt = fmt /\ r.text = text).date

\* ------------------------------------------------------------------------
\* Documents.  A parsed document is what its selectors return: a list of
\* matched elements per selector; an element is the list of its children
\* (markup text), a link or text element is its text.
\* ------------------------------------------------------------------------

\* A document in which every selector matches nothing.
EmptyDoc ==
  [ title       |-> <<>>,   \* .pane-node-title div / #..._hd / h2.posttitle
    subtitle    |-> <<>>,   \* #ContentPlaceHolder1_bref / #postExcerpt
    dateEl      |-> <<>>,   \* .field-field-published-date span / .metaStuff time
    sourceLinks |-> <<>>,   \* .field-field-source .field-items a
    authorLinks |-> <<>>,   \* .field-field-author .field-items a
    sourceBlob  |-> <<>>,   \* #ContentPlaceHolder1_source
    pageTitle   |-> <<>>,   \* soup.title
    crumbs      |-> <<>>,   \* #crumbs
    byline      |-> <<>>,   \* span[itemprop=author], each the texts of its <a>
    bio         |-> <<>>,   \* #authorBio .author-data h4 a
    content     |-> <<>>,   \* .pane-node-body div / #..._divContent / div.entry
    tagEls      |-> <<>>,   \* .view-free-tags .field-content a / ul#metaStuff li
    ogUrl       |-> <<>> ]  \* meta[property=og:url]

\* ' '.join([str(tag).strip() for tag in element.contents])
JoinContents(element) ==
  Join(<<" ">>, [k \in 1..Len(element) |-> Strip(element[k])])

\* [str(line) for line in element.contents if line != '\n']
DropNewlines(element) == SelectSeq(element, LAMBDA c : c # <<NL>>)

\* punc: string.punctuation without the hyphen, and the dashes and curly
\* quotes the code adds (each of these six is one character).
Punctuation ==
  { "!", "\"", "#", "$", "%", "&", "'", "(", ")", "*", "+", ",", ".", "/",
    ":", ";", "<", "=", ">", "?", "@", "[", "backslash", "]", "^", "_", "backtick", "{",
    "|", "}", "~", "endash", "emdash", "rdquo", "rsquo", "ldquo", "lsquo" }

\* '\n'.join([self._strip_all_tags(chunk) for chunk in content_clean])
ContentNoTags(content_clean) ==
  Join(<<NL>>,
       [k \in 1..Len(content_clean) |-> _strip_all_tags(content_clean[k])])

\* regex.sub(' ', content_no_tags.lower())
ContentNoPunc(content_no_tags) ==
  [i \in 1..Len(content_no_tags) |->
     IF LowerChar(content_no_tags[i]) \in Punctuation
     THEN " " ELSE LowerChar(content_no_tags[i])]

\* Positions where a word of s.split() starts: a character that is not
\* whitespace, at the start of s or after whitespace.
WordStarts(s) ==
  {i \in 1..Len(s) :
     s[i] \notin Whitespace /\ (i = 1 \/ s[i - 1] \in Whitespace)}

\* len(content_no_punc.split())
WordCount(content_no_punc) == Cardinality(WordStarts(content_no_punc))

\* The three derived fields, given the value of content_clean the
\* extractor holds when it reaches them.
Derived(content_clean) ==
  LET Fields(content_no_tags, content_no_punc) ==
        [ content_no_tags |-> content_no_tags,
          content_no_punc |-> content_no_punc,
          word_count      |-> WordCount(content_no_punc) ]
  IN CHOOSE fields \in
       { Fields(t, p) : <<t, p>> \in
           { <<t, ContentNoPunc(t) \o <<>> >> :
               t \in {ContentNoTags(content_clean)} } } : TRUE

\* for chunk in s, s a string: its characters, one at a time.
Chars(s) == [k \in 1..Len(s) |-> <<s[k]>>]

\* The outcome of Article(html_file): the exception raised, or the Article.
Raised(e) == [exc |-> e]

Built(a) == [exc |-> "none", article |-> a]

\* ------------------------------------------------------------------------
\* Article._extract_fields_egind
\* ------------------------------------------------------------------------

EgindSources(d) ==
  [k \in 1..Len(d.sourceLinks) |-> Strip(d.sourceLinks[k])]

EgindAuthors(d) ==
  [k \in 1..Len(d.authorLinks) |-> Strip(d.authorLinks[k])]

EgindTags(d) == [k \in 1..Len(d.tagEls) |-> Lower(Strip(d.tagEls[k]))]

_extract_fields_egind(d) ==
  IF d.title = <<>> THEN Raised("IndexError")
  ELSE IF d.dateEl = <<>> THEN Raised("IndexError")
  ELSE IF ~strptime_matches(Strip(d.dateEl[1]), FmtEgind)
       THEN Raised("ValueError")
  ELSE IF d.content = <<>> THEN Raised("IndexError")
  ELSE IF d.ogUrl = <<>> THEN Raised("TypeError")
  ELSE LET content_clean == DropNewlines(d.content[1])
       IN IF content_clean = <<>> THEN Raised("IndexError")
          ELSE Built(
            [ title      |-> JoinContents(d.title[1]),
              subtitle   |-> <<>>,
              date       |-> strptime(Strip(d.dateEl[1]), FmtEgind),
              authors    |-> EgindAuthors(d),
              sources    |-> EgindSources(d),
              content    |-> Join(<<NL>>, content_clean),
              url        |-> d.ogUrl[1],
              type       |-> IF Contains(d.ogUrl[1], LitOpinionPath)
                             THEN "Opinion" ELSE "News",
              tags       |-> EgindTags(d),
              translated |-> Contains(content_clean[Len(content_clean)],
                                      LitTranslat) ]
            @@ Derived(content_clean))

\* ------------------------------------------------------------------------
\* The type rule of ahram and dne: "opinion articles have authors, news
\* articles have sources".
\* ------------------------------------------------------------------------

\* The type rule with the news branch lost: sources are filled whatever the
\* type (sensitivity check of C4).
SourcesForAny(type, names) == names

AuthorsFor(type, names) == IF type = "Opinion" THEN names ELSE <<>>

SourcesFor(type, names) == IF type = "Opinion" THEN <<>> ELSE names


\* ------------------------------------------------------------------------
\* Article._extract_fields_ahram
\* ------------------------------------------------------------------------

\* re.sub('(\(|\))', ' ', s)
ReplaceParens(s) ==
  [i \in 1..Len(s) |-> IF s[i] \in {"(", ")"} THEN " " ELSE s[i]]

\* re.split(',|and|  ', s)
AhramSplit(s) == ReSplit(s, << <<",">>, LitAnd, <<" ", " ">> >>)

\* source_and_date_split after the parentheses are replaced.
AhramTokens(d) == AhramSplit(ReplaceParens(JoinContents(d.sourceBlob[1])))

\* date_clean: source_and_date_split.pop().strip()
AhramDateText(d) == LET t == AhramTokens(d) IN Strip(t[Len(t)])

\* [source.strip() for source in source_and_date_split if source != '']
AhramSourceClean(d) ==
  LET t    == AhramTokens(d)
      rest == SubSeq(t, 1, Len(t) - 1)
      kept == SelectSeq(rest, LAMBDA x : x # <<>>)
  IN [k \in 1..Len(kept) |-> Strip(kept[k])]

\* str.translate with {'\n': None, '\t': None, '\xa0': ' '}
Translate(s) ==
  LET kept == SelectSeq(s, LAMBDA c : c \notin {NL, "\t"})
  IN [i \in 1..Len(kept) |-> IF kept[i] = NBSP THEN " " ELSE kept[i]]

AhramContentBlob(d) ==
  LET lines == DropNewlines(d.content[1])
  IN [k \in 1..Len(lines) |-> Translate(lines[k])]

\* [list(group) for k, group in groupby(blob, lambda x: x == marker) if not k]
RECURSIVE GroupsFrom(_, _, _, _)
GroupsFrom(blob, i, cur, marker) ==
  IF i > Len(blob) THEN (IF cur = <<>> THEN <<>> ELSE <<cur>>)
  ELSE IF blob[i] = marker
       THEN (IF cur = <<>> THEN <<>> ELSE <<cur>>)
            \o GroupsFrom(blob, i + 1, <<>>, marker)
       ELSE GroupsFrom(blob, i + 1, Append(cur, blob[i]), marker)

AhramBlobSplit(d) == GroupsFrom(AhramContentBlob(d), 1, <<>>, LitShortLink)

\* content_soup.select('.search_word'): the keyword blocks among the
\* content chunks.
IsSearchWord(chunk) == TagAt(chunk, 1) /\ Contains(chunk, LitSearchWord)

AhramTagsRaw(d) == SelectSeq(AhramBlobSplit(d)[1], IsSearchWord)

AhramContentClean(d) ==
  LET raw   == SelectSeq(AhramBlobSplit(d)[1],
                         LAMBDA c : ~IsSearchWord(c) /\ c # <<NL>>)
      clean == [k \in 1..Len(raw) |-> _strip_extra_tags(raw[k])]
  IN SelectSeq(clean, LAMBDA c : c # <<>>)

AhramTags(d) ==
  LET tags_raw == AhramTagsRaw(d)
  IN IF tags_raw # <<>>
     THEN LET tags_string == _strip_all_tags(tags_raw[1])
              tags_clean  == StrReplace(tags_string, LitSearchKeywords, <<>>)
              tags_split  == StrSplit(tags_clean, <<"|">>)
          IN [k \in 1..Len(tags_split) |-> Lower(Strip(tags_split[k]))]
     ELSE <<>>

\* re.search('value="(.+)"', s): the leftmost start, the longest match.
ValueStarts(s) ==
  {i \in 1..Len(s) :
     /\ MatchAt(s, i, LitValueAttr)
     /\ \E j \in (i + 8)..Len(s) : s[j] = "\""}

ValueGroup(s) ==
  LET i == CHOOSE a \in ValueStarts(s) : \A b \in ValueStarts(s) : a <= b
      j == CHOOSE a \in (i + 8)..Len(s) :
             /\ s[a] = "\""
             /\ \A b \in (a + 1)..Len(s) : s[b] # "\""
  IN SubSeq(s, i + 7, j - 1)

Digits == {"0", "1", "2", "3", "4", "5", "6", "7", "8", "9"}

AhramUrl(shortlink) ==
  IF Contains(shortlink, LitHttp) THEN shortlink
  ELSE AhramUrlPrefix
       \o SelectSeq(shortlink, LAMBDA c : c \in Digits)
       \o AhramUrlSuffix

_extract_fields_ahram(d) ==
  IF d.title = <<>> THEN Raised("IndexError")
  ELSE IF d.subtitle = <<>> THEN Raised("IndexError")
  ELSE IF d.sourceBlob = <<>> THEN Raised("IndexError")
  ELSE IF ~strptime_matches(AhramDateText(d), FmtAhram)
       THEN Raised("ValueError")
  ELSE IF d.pageTitle = <<>> THEN Raised("AttributeError")
  ELSE IF d.content = <<>> THEN Raised("IndexError")
  ELSE IF Len(AhramBlobSplit(d)) < 2 THEN Raised("IndexError")
  ELSE LET url_raw == Join(<<>>, AhramBlobSplit(d)[2])
           type    == IF Contains(d.pageTitle[1], LitOpinionDash)
                      THEN "Opinion" ELSE "News"
           sub     == _strip_all_tags(JoinContents(d.subtitle[1]))
       IN IF ValueStarts(url_raw) = {} THEN Raised("AttributeError")
          ELSE Built(
            [ title      |-> _strip_all_tags(JoinContents(d.title[1])),
              subtitle   |-> IF sub # <<>> THEN <<sub>> ELSE <<>>,
              date       |-> strptime(AhramDateText(d), FmtAhram),
              authors    |-> AuthorsFor(type, AhramSourceClean(d)),
              sources    |-> SourcesFor(type, AhramSourceClean(d)),
              content    |-> Join(<<NL>>, AhramContentClean(d)),
              url        |-> AhramUrl(ValueGroup(url_raw)),
              type       |-> type,
              tags       |-> AhramTags(d),
              translated |-> FALSE ]
            @@ Derived(AhramContentClean(d)))

\* ------------------------------------------------------------------------
\* Article._extract_fields_dne
\* ------------------------------------------------------------------------

\* The alternatives of the wire-service pattern, in the pattern's order.
WireServices ==
  << Reuters, <<"A", "P">>, <<"P", "A">>, <<"A", "N", "P">>, AFP,
     <<"D", "P", "A">>, <<"A", "N", "S", "A">>, <<"M", "E", "N", "A">> >>

\* A byline of this many words or more is taken for prose and dropped.
BylineWordLimit == 6

\* content_clean as it stands after the extra cleaning: one string, the
\* stripped non-empty chunks joined by newlines, cut at 'Related posts:'.
DneContentClean(d) ==
  LET chunks   == d.content[1]
      stripped == [k \in 1..Len(chunks) |-> Strip(_strip_again(chunks[k]))]
      kept     == SelectSeq(stripped, LAMBDA c : c # <<>>)
  IN StrSplit(Join(<<NL>>, kept), LitRelatedPosts)[1]

\* self.content: what follows the CDATA marker when there is one.
DneContent(d) ==
  LET content_clean_cdata == StrSplit(DneContentClean(d), LitCdata)
  IN IF Len(content_clean_cdata) > 1
     THEN content_clean_cdata[2]
     ELSE DneContentClean(d)

\* The derived fields: content_clean is one string here, so the loop over
\* its chunks runs over its characters.
DneDerived(d) == Derived(Chars(DneContentClean(d)))

\* firstline: content_clean is one string here, so content_clean[0] is
\* its first character.
DneFirstLine(d) == _strip_all_tags(<<DneContentClean(d)[1]>>)

\* source_clean: the structured byline, else the author bio, else nothing.
DneSourceClean(d) ==
  IF d.byline[1] # <<>> THEN <<d.byline[1][1][1]>>
  ELSE IF d.bio # <<>> THEN d.bio[1]
  ELSE <<>>

\* additional_sources: the names of a 'By ...' first line.
DneAdditionalSources(firstline) ==
  IF StartsWith(firstline, LitBySpace) \/ StartsWith(firstline, LitByNbsp)
  THEN LET byline == ReSplit(Strip(StrReplace(firstline, LitBy, <<>>)),
                             << <<",">>, LitAnd >>)
           short  == SelectSeq(byline,
                               LAMBDA x : Len(Words(x)) < BylineWordLimit)
       IN [k \in 1..Len(short) |-> Strip(short[k])]
  ELSE <<>>

\* wire_sources
DneWireSources(firstline) == ReFindAll(firstline, WireServices)

\* The final list with the default lost: the combined signals as they
\* are, empty or not (sensitivity check of C11).
DneFinalSourcesNoDefault(d) ==
  DneSourceClean(d)
  \o DneAdditionalSources(DneFirstLine(d))
  \o DneWireSources(DneFirstLine(d))

DneFinalSources(d) ==
  LET combined_sources == DneSourceClean(d)
                          \o DneAdditionalSources(DneFirstLine(d))
                          \o DneWireSources(DneFirstLine(d))
  IN IF Len(combined_sources) > 0
     THEN combined_sources
     ELSE <<DailyNewsEgypt>>

DneTags(d) ==
  LET tagged   == SelectSeq(d.tagEls, LAMBDA t : Contains(t, LitTaggedWith))
      joined   == Join(<<>>, [k \in 1..Len(tagged) |-> Strip(tagged[k])])
      tags_raw == StrReplace(_strip_all_tags(joined), LitTaggedWith, <<>>)
      tags     == StrSplit(tags_raw, <<",">>)
  IN [k \in 1..Len(tags) |-> Lower(Strip(tags[k]))]

_extract_fields_dne(d) ==
  IF d.title = <<>> THEN Raised("IndexError")
  ELSE IF d.subtitle = <<>> THEN Raised("IndexError")
  ELSE IF d.dateEl = <<>> THEN Raised("IndexError")
  ELSE IF ~strptime_matches(Strip(d.dateEl[1]), FmtDne)
       THEN Raised("ValueError")
  ELSE IF d.crumbs = <<>> THEN Raised("IndexError")
  ELSE IF d.content = <<>> THEN Raised("IndexError")
  ELSE IF d.byline = <<>> THEN Raised("AttributeError")
  ELSE IF d.byline[1] # <<>> /\ d.byline[1][1] = <<>>
       THEN Raised("IndexError")
  ELSE IF DneContentClean(d) = <<>> THEN Raised("IndexError")
  ELSE IF d.ogUrl = <<>> THEN Raised("TypeError")
  ELSE LET sub  == _strip_all_tags(JoinContents(d.subtitle[1]))
           type == IF Contains(_strip_all_tags(JoinContents(d.crumbs[1])),
                               LitOpinion)
                   THEN "Opinion" ELSE "News"
       IN Built(
            [ title      |-> _strip_all_tags(JoinContents(d.title[1])),
              subtitle   |-> IF sub # <<>> THEN <<sub>> ELSE <<>>,
              date       |-> strptime(Strip(d.dateEl[1]), FmtDne),
              authors    |-> AuthorsFor(type, DneFinalSources(d)),
              sources    |-> SourcesFor(type, DneFinalSources(d)),
              content    |-> DneContent(d),
              url        |-> d.ogUrl[1],
              type       |-> type,
              tags       |-> DneTags(d),
              translated |-> FALSE ]
            @@ DneDerived(d))

\* ------------------------------------------------------------------------
\* Article.__init__: the extractor of the configured publication.
\* ------------------------------------------------------------------------

Publications == {"egind", "ahram", "dne"}

\* Dispatch with egind as the fallback instead of the raise (sensitivity
\* check of C8).
ArticleDefaultEgind(pub, d) ==
  IF pub = "ahram" THEN _extract_fields_ahram(d)
  ELSE IF pub = "dne" THEN _extract_fields_dne(d)
  ELSE _extract_fields_egind(d)

Article(pub, d) ==
  IF pub = "egind" THEN _extract_fields_egind(d)
  ELSE IF pub = "ahram" THEN _extract_fields_ahram(d)
  ELSE IF pub = "dne" THEN _extract_fields_dne(d)
  ELSE Raised("Exception")

\* ------------------------------------------------------------------------
\* The files of the model, per publication, and what each parses to.
\* ------------------------------------------------------------------------

EgindBase ==
  [EmptyDoc EXCEPT !.title = << <<TitleNgoLaw>> >>,
                   !.dateEl = <<DateEgindGood>>,
                   !.sourceLinks = <<Reuters>>,
                   !.content = << <<ParaText, <<NL>>, ParaMore>> >>,
                   !.tagEls = <<EgindTagEgypt>>,
                   !.ogUrl = <<UrlEgindNews>>]

AhramBase ==
  [EmptyDoc EXCEPT !.title = << <<TitleNgoLaw>> >>,
                   !.subtitle = << <<SubtitleText>> >>,
                   !.sourceBlob = << <<BlobScenario>> >>,
                   !.pageTitle = <<PageTitleNews>>,
                   !.content = << <<ParaText, <<NL>>, KeywordsBlock,
                                    LitShortLink, InputFull>> >>]

DneBase ==
  [EmptyDoc EXCEPT !.title = << <<TitleNgoLaw>> >>,
                   !.subtitle = << <<SubtitleText>> >>,
                   !.dateEl = <<DateDneGood>>,
                   !.crumbs = << <<CrumbsNews>> >>,
                   !.byline = << << <<JaneDoe>> >> >>,
                   !.content = << <<ParaCairo, <<NL>>, ParaMore>> >>,
                   !.tagEls = <<TagLiOther, TagLiEgypt>>,
                   !.ogUrl = <<UrlDneNews>>]

EgindFiles ==
  { "ei/ngo-law.html", "ei/ngo-law-2.html", "ei/ngo-law-edited.html",
    "ei/beyond.html", "ei/aid.html", "ei/no-title.html", "ei/all-day.html",
    "ei/no-og-url.html" }

AhramFiles ==
  { "ahram/57831.html", "ahram/57831-2.html", "ahram/57832.html",
    "ahram/57833.html", "ahram/abbrev-date.html", "ahram/no-title.html",
    "ahram/no-short-link.html", "ahram/no-head.html" }

DneFiles ==
  { "dne/ngo-trial.html", "dne/ngo-trial-2.html", "dne/by-jane.html",
    "dne/bio.html", "dne/no-byline-span.html", "dne/page2.html",
    "dne/day-first.html", "dne/unsigned.html", "dne/cdata.html",
    "dne/no-tags.html" }

\* BeautifulSoup(open(html_file, 'r'))
Soup(f) ==
  CASE f \in {"ei/ngo-law.html", "ei/ngo-law-2.html"} -> EgindBase
    [] f = "ei/ngo-law-edited.html" ->
         [EgindBase EXCEPT !.sourceLinks = <<AFP>>,
                           !.tagEls = <<EgindTagNgos>>]
    [] f = "ei/beyond.html" ->
         [EgindBase EXCEPT !.title = << <<TitleAid>> >>,
                           !.sourceLinks = <<>>,
                           !.authorLinks = <<JaneDoe>>,
                           !.content = << <<ParaText, ParaTranslated>> >>,
                           !.tagEls = <<EgindTagEgypt, EgindTagEgyptPadded>>,
                           !.ogUrl = <<UrlEgindOpinion>>]
    [] f = "ei/aid.html" ->
         [EgindBase EXCEPT !.title = << <<TitleAid>> >>,
                           !.authorLinks = <<JaneDoe>>,
                           !.tagEls = <<>>,
                           !.ogUrl = <<UrlEgindOpinion2>>]
    [] f = "ei/no-title.html" -> [EgindBase EXCEPT !.title = <<>>]
    [] f = "ei/all-day.html" ->
         [EgindBase EXCEPT !.dateEl = <<DateEgindAllDay>>]
    [] f = "ei/no-og-url.html" -> [EgindBase EXCEPT !.ogUrl = <<>>]
    [] f \in {"ahram/57831.html", "ahram/57831-2.html"} -> AhramBase
    [] f = "ahram/57832.html" ->
         [AhramBase EXCEPT !.subtitle = << <<>> >>,
                           !.sourceBlob = << <<BlobOxford>> >>,
                           !.content = << <<ParaMore, LitShortLink,
                                            InputNumber>> >>]
    [] f = "ahram/57833.html" ->
         [AhramBase EXCEPT !.title = << <<TitleAid>> >>,
                           !.sourceBlob = << <<BlobOpinion>> >>,
                           !.pageTitle = <<PageTitleOpinion>>,
                           !.content = << <<ParaText, LitShortLink,
                                            InputOpinion>> >>]
    [] f = "ahram/abbrev-date.html" ->
         [AhramBase EXCEPT !.sourceBlob = << <<BlobAbbrev>> >>]
    [] f = "ahram/no-title.html" -> [AhramBase EXCEPT !.title = <<>>]
    [] f = "ahram/no-short-link.html" ->
         [AhramBase EXCEPT !.content = << <<ParaText>> >>]
    [] f = "ahram/no-head.html" -> [AhramBase EXCEPT !.pageTitle = <<>>]
    [] f \in {"dne/ngo-trial.html", "dne/ngo-trial-2.html"} -> DneBase
    [] f = "dne/by-jane.html" ->
         [DneBase EXCEPT !.title = << <<TitleAid>> >>,
                         !.crumbs = << <<CrumbsOpinion>> >>,
                         !.byline = << <<>> >>,
                         !.content = << <<ParaByJane, <<NL>>, ParaMore>> >>,
                         !.ogUrl = <<UrlDneOpinion>>]
    [] f = "dne/bio.html" ->
         [DneBase EXCEPT !.byline = << <<>> >>,
                         !.bio = << <<JohnSmith>> >>,
                         !.ogUrl = <<UrlDneBio>>]
    [] f = "dne/no-byline-span.html" -> [DneBase EXCEPT !.byline = <<>>]
    [] f = "dne/page2.html" -> [DneBase EXCEPT !.title = <<>>]
    [] f = "dne/day-first.html" ->
         [DneBase EXCEPT !.dateEl = <<DateDneDayFirst>>]
    [] f = "dne/cdata.html" ->
         [DneBase EXCEPT !.content = << <<CdataJunk, <<NL>>, ParaCairo>> >>,
                         !.ogUrl = <<UrlDneCdata>>]
    [] f = "dne/no-tags.html" ->
         [DneBase EXCEPT !.tagEls = <<TagLiOther>>,
                         !.ogUrl = <<UrlDneNoTags>>]
    [] f = "dne/unsigned.html" ->
         [DneBase EXCEPT !.byline = << <<>> >>,
                         !.ogUrl = <<UrlDneUnsigned>>]

\* The files the glob may return for a configured publication.
FilesOf(pub) ==
  IF pub = "ahram" THEN AhramFiles
  ELSE IF pub = "dne" THEN DneFiles
  ELSE EgindFiles

\* ------------------------------------------------------------------------
\* The store.  A table is the sequence of its rows in insertion order.
\* ------------------------------------------------------------------------

EmptyDb ==
  [ articles         |-> <<>>,   \* [id, url, row]
    authors          |-> <<>>,   \* [id, name]
    sources          |-> <<>>,   \* [id, name]
    tags             |-> <<>>,   \* [id, name]
    articles_authors |-> <<>>,   \* [fk_article, fk_dim]
    articles_sources |-> <<>>,
    articles_tags    |-> <<>> ]

\* The rowid SQLite gives the next row: one more than the largest in use.
NextId(tbl) ==
  IF tbl = <<>> THEN 1
  ELSE 1 + (CHOOSE m \in {tbl[i].id : i \in 1..Len(tbl)} :
              \A i \in 1..Len(tbl) : tbl[i].id <= m)

\* The uniqueness constraints of the schema: articles by URL, a dimension
\* by name, a junction by its pair of keys.
UrlTaken(articles, url) == \E i \in 1..Len(articles) : articles[i].url = url

NameTaken(tbl, name) == \E i \in 1..Len(tbl) : tbl[i].name = name

PairTaken(junction, pair) == \E i \in 1..Len(junction) : junction[i] = pair

\* The scalar columns of an article row.
ArticleRow(a) ==
  [ title |-> a.title, subtitle |-> a.subtitle, date |-> a.date,
    type |-> a.type, content |-> a.content,
    content_no_tags |-> a.content_no_tags,
    content_no_punc |-> a.content_no_punc,
    word_count |-> a.word_count, translated |-> a.translated ]

\* INSERT OR REPLACE INTO articles: the row of that URL is deleted and a new
\* one inserted under a new rowid (sensitivity check of C1).
InsertOrReplaceArticle(articles, a) ==
  Append(SelectSeq(articles, LAMBDA r : r.url # a.url),
         [id |-> NextId(articles), url |-> a.url, row |-> ArticleRow(a)])

\* INSERT OR IGNORE INTO articles
InsertOrIgnoreArticle(articles, a) ==
  IF UrlTaken(articles, a.url) THEN articles
  ELSE Append(articles,
              [id |-> NextId(articles), url |-> a.url, row |-> ArticleRow(a)])

\* SELECT id_article FROM articles WHERE article_url = ?
SelectArticleIds(articles, url) ==
  LET hits == SelectSeq(articles, LAMBDA r : r.url = url)
  IN [k \in 1..Len(hits) |-> hits[k].id]

\* executemany INSERT OR IGNORE INTO <dimension> (name)
RECURSIVE InsertOrIgnoreNames(_, _)
InsertOrIgnoreNames(tbl, names) ==
  IF names = <<>> THEN tbl
  ELSE InsertOrIgnoreNames(
         IF NameTaken(tbl, Head(names)) THEN tbl
         ELSE Append(tbl, [id |-> NextId(tbl), name |-> Head(names)]),
         Tail(names))

\* SELECT id FROM <dimension> with the WHERE clause lost (sensitivity check
\* of C3).
SelectAllIds(tbl, names) == [k \in 1..Len(tbl) |-> tbl[k].id]

\* SELECT id FROM <dimension> WHERE name IN (?, ...)
SelectIdsByName(tbl, names) ==
  LET hits == SelectSeq(tbl, LAMBDA r : r.name \in Range(names))
  IN [k \in 1..Len(hits) |-> hits[k].id]

\* executemany INSERT OR IGNORE INTO <junction> (fk_article, fk_dim)
RECURSIVE InsertOrIgnorePairs(_, _, _)
InsertOrIgnorePairs(junction, article_id, ids) ==
  IF ids = <<>> THEN junction
  ELSE LET pair == [fk_article |-> article_id, fk_dim |-> Head(ids)]
       IN InsertOrIgnorePairs(
            IF PairTaken(junction, pair) THEN junction
            ELSE Append(junction, pair),
            article_id, Tail(ids))

\* Article.write_to_db up to the commit: the connection's view of the store.
write_to_db(db, a) ==
  LET articles   == InsertOrIgnoreArticle(db.articles, a)
      article_id == SelectArticleIds(articles, a.url)[1]
      authors    == InsertOrIgnoreNames(db.authors, a.authors)
      author_ids == SelectIdsByName(authors, a.authors)
      sources    == InsertOrIgnoreNames(db.sources, a.sources)
      source_ids == SelectIdsByName(sources, a.sources)
      tags       == InsertOrIgnoreNames(db.tags, a.tags)
      tag_ids    == SelectIdsByName(tags, a.tags)
  IN [ articles         |-> articles,
       authors          |-> authors,
       sources          |-> sources,
       tags             |-> tags,
       articles_sources |->
         InsertOrIgnorePairs(db.articles_sources, article_id, source_ids),
       articles_authors |->
         InsertOrIgnorePairs(db.articles_authors, article_id, author_ids),
       articles_tags    |->
         InsertOrIgnorePairs(db.articles_tags, article_id, tag_ids) ]

\* write_to_db without its commit (sensitivity check of C7).
commit_skipped(working, durable) == durable

\* conn.commit(): what the connection wrote becomes what the store holds.
commit(working, durable) == working

\* except ValueError (sensitivity check of C5).
CaughtValueError(exc) == exc = "ValueError"

\* except (IndexError, ValueError) (sensitivity check of C6).
CaughtIndexOrValue(exc) == exc \in {"IndexError", "ValueError"}

\* except IndexError: the exceptions the run loop catches.
Caught(exc) == exc = "IndexError"

\* ------------------------------------------------------------------------
\* The run loop
\* ------------------------------------------------------------------------

VARIABLES
  publication,  \* the configured publication identifier
  files,        \* glob.glob(files_to_parse)
  pos,          \* index in files of the file the loop is at
  article,      \* how Article(html_file) ended for that file, once it ran
  status,       \* "running", "done" (loop exhausted), "aborted" (traceback)
  db,           \* the store as the open connection sees it
  disk,         \* the store as committed
  broken,       \* the files moved to broken_files, in order
  log           \* history: per file handled, its name and how Article() ended

vars == <<publication, files, pos, article, status, db, disk, broken, log>>

\* The sequences of at most n distinct elements of S.
RECURSIVE DistinctSeqs(_, _)
DistinctSeqs(S, n) ==
  IF n = 0 THEN {<<>>}
  ELSE LET shorter == DistinctSeqs(S, n - 1)
       IN shorter \cup
          {Append(q, x) : <<q, x>> \in
             {<<q, x>> \in shorter \X S : x \notin Range(q)}}

\* Article(html_file) has not run for the file the loop is at.
Pending == [exc |-> "pending"]

Init ==
  /\ publication \in Publications \cup {"bogus"}
  /\ files \in DistinctSeqs(FilesOf(publication), MaxFiles)
  /\ pos = 1
  /\ article = Pending
  /\ status = "running"
  /\ db = EmptyDb
  /\ disk = EmptyDb
  /\ broken = <<>>
  /\ log = <<>>

AtFile == status = "running" /\ pos <= Len(files)

Logged == Append(log, [file |-> files[pos], outcome |-> article])

\* article = Article(html_file)
Parse ==
  /\ AtFile
  /\ article = Pending
  /\ article' = Article(publication, Soup(files[pos]))
  /\ UNCHANGED <<publication, files, pos, status, db, disk, broken, log>>

\* article.write_to_db(conn, c)
WriteToDb ==
  /\ AtFile
  /\ article.exc = "none"
  /\ LET written == write_to_db(db, article.article)
     IN /\ db' = written
        /\ disk' = commit(written, disk)
  /\ log' = Logged
  /\ pos' = pos + 1
  /\ article' = Pending
  /\ UNCHANGED <<publication, files, status, broken>>

\* except IndexError: shutil.move(html_file, broken_files)
MoveBroken ==
  /\ AtFile
  /\ article.exc \notin {"pending", "none"}
  /\ Caught(article.exc)
  /\ broken' = Append(broken, files[pos])
  /\ log' = Logged
  /\ pos' = pos + 1
  /\ article' = Pending
  /\ UNCHANGED <<publication, files, status, db, disk>>

\* Any other exception leaves the loop and ends the process; the connection
\* is dropped with whatever it had not committed.
Abort ==
  /\ AtFile
  /\ article.exc \notin {"pending", "none"}
  /\ ~Caught(article.exc)
  /\ status' = "aborted"
  /\ db' = disk
  /\ log' = Logged
  /\ UNCHANGED <<publication, files, pos, article, disk, broken>>

\* The loop is exhausted: c.close(); conn.close()
Finish ==
  /\ status = "running"
  /\ pos > Len(files)
  /\ status' = "done"
  /\ db' = disk
  /\ UNCHANGED <<publication, files, pos, article, disk, broken, log>>

Next == Parse \/ WriteToDb \/ MoveBroken \/ Abort \/ Finish

Spec == Init /\ [][Next]_vars

\* ------------------------------------------------------------------------
\* Properties
\* ------------------------------------------------------------------------

\* The log entries of the files whose Article was persisted.
Written == {i \in 1..Len(log) : log[i].outcome.exc = "none"}

ArticleAt(i) == log[i].outcome.article

\* Every Article an extractor has produced so far in the run.
Produced ==
  {ArticleAt(i) : i \in Written}
  \cup (IF article.exc = "none" THEN {article.article} ELSE {})

\* The loop holds an Article and is about to persist it.
AboutToWrite == AtFile /\ article.exc = "none"

\* The loop holds this exception of Article(html_file) and is about to
\* handle it.
AboutToHandle(exc) == AtFile /\ article.exc = exc

\* C1: persisting an Article that was persisted before changes no table,
\* committed or not, and the run goes on to the next file without error.
C1_WriteTwiceIsIdempotent ==
  [][ (AboutToWrite /\ \E i \in Written : ArticleAt(i) = article.article)
      => /\ db' = db
         /\ disk' = disk
         /\ status' = "running"
         /\ pos' = pos + 1 ]_vars

\* C1 witness: the same Article has been persisted twice.
C1_Witness ==
  \E i, j \in Written : i < j /\ ArticleAt(i) = ArticleAt(j)

\* C2: persisting any Article whose URL is already in articles changes no
\* table.
C2_NoOpWhenUrlPresent ==
  [][ (AboutToWrite /\ UrlTaken(db.articles, article.article.url))
      => db' = db ]_vars

\* The names, and the (article URL, name) pairs, persisted so far for one
\* of the three dimensions.
NamesPersisted(dim) == UNION {Range(ArticleAt(i)[dim]) : i \in Written}

PairsPersisted(dim) ==
  UNION {{<<ArticleAt(i).url, n>> : n \in Range(ArticleAt(i)[dim])} :
           i \in Written}

\* A dimension table holds exactly one row per name persisted.
OneRowPerName(tbl, dim) ==
  /\ Len(tbl) = Cardinality(NamesPersisted(dim))
  /\ {tbl[k].name : k \in 1..Len(tbl)} = NamesPersisted(dim)

\* A junction table holds exactly one row per (article, name) pair
\* persisted, each row referring to an article row and a dimension row.
OneRowPerPair(junction, articles, tbl, dim) ==
  /\ \A k \in 1..Len(junction) :
       /\ \E r \in Range(articles) : r.id = junction[k].fk_article
       /\ \E r \in Range(tbl) : r.id = junction[k].fk_dim
  /\ Len(junction) = Cardinality(PairsPersisted(dim))
  /\ { << (CHOOSE r \in Range(articles) : r.id = junction[k].fk_article).url,
          (CHOOSE r \in Range(tbl) : r.id = junction[k].fk_dim).name >> :
         k \in 1..Len(junction) } = PairsPersisted(dim)

\* C3: after any sequence of write_to_db calls every dimension table holds
\* exactly one row per distinct name persisted and every junction table
\* exactly one row per distinct (article, name) pair persisted.
C3_OneRowPerNameAndPair ==
  /\ OneRowPerName(db.authors, "authors")
  /\ OneRowPerName(db.sources, "sources")
  /\ OneRowPerName(db.tags, "tags")
  /\ OneRowPerPair(db.articles_authors, db.articles, db.authors, "authors")
  /\ OneRowPerPair(db.articles_sources, db.articles, db.sources, "sources")
  /\ OneRowPerPair(db.articles_tags, db.articles, db.tags, "tags")

\* C3 witness: two articles of different URLs share their one author (one
\* author row, two junction rows) and one of them repeats a tag (one tag
\* row, one junction row).
C3_Witness ==
  /\ \E i, j \in Written :
       /\ ArticleAt(i).url # ArticleAt(j).url
       /\ ArticleAt(i).authors # <<>>
       /\ ArticleAt(i).authors = ArticleAt(j).authors
       /\ Len(ArticleAt(i).tags) = 2
       /\ ArticleAt(i).tags[1] = ArticleAt(i).tags[2]
       /\ ArticleAt(j).tags = <<>>
  /\ Len(db.authors) = 1
  /\ Len(db.articles_authors) = 2
  /\ Len(db.tags) = 1
  /\ Len(db.articles_tags) = 1

\* An Article with both an author and a source.
HasBoth(a) == a.authors # <<>> /\ a.sources # <<>>

C5_IndexErrorIsQuarantined ==
  /\ [][ AboutToHandle("IndexError")
         => /\ broken' = Append(broken, files[pos])
            /\ db' = db
            /\ disk' = disk
            /\ status' = "running"
            /\ pos' = pos + 1 ]_vars
  /\ [](status = "aborted" => log[Len(log)].outcome.exc # "IndexError")
  /\ [](status = "done" => Len(log) = Len(files))

\* C5 witness: a file was moved to the broken files and a later file was
\* persisted.
C5_Witness ==
  \E i, j \in 1..Len(log) :
    /\ i < j
    /\ log[i].outcome.exc = "IndexError"
    /\ log[i].file \in Range(broken)
    /\ j \in Written

\* C6: a file whose date text does not match the format is handled as one
\* raising IndexError is: moved to the broken files, with no table changed
\* and the loop going on.
C6_DateErrorIsQuarantined ==
  [][ AboutToHandle("ValueError")
      => /\ broken' = Append(broken, files[pos])
         /\ db' = db
         /\ disk' = disk
         /\ status' = "running"
         /\ pos' = pos + 1 ]_vars

\* C6 as amended: a file whose date text does not match the format ends
\* the run: it is not moved, no table changes, and nothing happens after.
C6_DateErrorAbortsRun ==
  [][ /\ AboutToHandle("ValueError")
         => /\ status' = "aborted"
            /\ broken' = broken
            /\ db' = db
            /\ disk' = disk
            /\ pos' = pos
      /\ status = "aborted" => UNCHANGED vars ]_vars

\* C6 witness: the run ended on a date error with files left unhandled.
C6_Witness ==
  /\ status = "aborted"
  /\ log[Len(log)].outcome.exc = "ValueError"
  /\ log[Len(log)].file \notin Range(broken)
  /\ Len(log) < Len(files)

\* The store d holds the article row, the dimension rows and the junction
\* rows of Article a.
HoldsPair(junction, articles, tbl, url, name) ==
  \E k \in 1..Len(junction) :
    /\ \E r \in Range(articles) :
         r.id = junction[k].fk_article /\ r.url = url
    /\ \E r \in Range(tbl) : r.id = junction[k].fk_dim /\ r.name = name

Holds(d, a) ==
  /\ UrlTaken(d.articles, a.url)
  /\ \A n \in Range(a.authors) :
       HoldsPair(d.articles_authors, d.articles, d.authors, a.url, n)
  /\ \A n \in Range(a.sources) :
       HoldsPair(d.articles_sources, d.articles, d.sources, a.url, n)
  /\ \A n \in Range(a.tags) :
       HoldsPair(d.articles_tags, d.articles, d.tags, a.url, n)

\* C7: in every state of the run, whatever happened to later files, the
\* committed store holds the rows of every file persisted so far.
C7_CommittedRowsStay == \A i \in Written : Holds(disk, ArticleAt(i))

\* C7 witness: a file failed (moved, or the run aborted) after an earlier
\* file was persisted.
C7_Witness ==
  \E i \in Written, j \in 1..Len(log) :
    i < j /\ log[j].outcome.exc # "none"

FirstParagraph(d) ==
  _strip_all_tags(
    SelectSeq(d.content[1], LAMBDA c : Strip(c) # <<>>)[1])

\* The names a dne Article carries: authors for Opinion, sources for News.
DneNames(a) == IF a.type = "Opinion" THEN a.authors ELSE a.sources

\* C9: when the first content paragraph of a dne document starts with
\* 'By ', every name of it of at most 5 words is among the Article's
\* names; for the Opinion document starting 'By Jane Doe, John Smith and
\* wire reports' authors holds Jane Doe and John Smith and sources is
\* empty.  (The claim's further clause, that authors does not hold 'wire
\* reports', is left out: 'wire reports' is a name of two words, which the
\* first clause puts in authors.)
C9_ByLineNamesAppended ==
  publication = "dne"
  => \A i \in Written :
       LET para == FirstParagraph(Soup(log[i].file))
           a    == ArticleAt(i)
       IN /\ StartsWith(para, LitBySpace)
             => \A n \in Range(ReSplit(Strip(From(para, 4)),
                                       << <<",">>, LitAnd >>)) :
                  Len(Words(n)) <= 5 => Strip(n) \in Range(DneNames(a))
          /\ log[i].file = "dne/by-jane.html"
             => /\ JaneDoe \in Range(a.authors)
                /\ JohnSmith \in Range(a.authors)
                /\ a.sources = <<>>

\* C10: the ahram sources (News) or authors (Opinion) hold no empty name,
\* and the News source text 'Reuters and Ahram Online (Jadaliyya)' yields
\* sources Reuters, Ahram Online, Jadaliyya and no authors.
C10_NoEmptyName ==
  publication = "ahram"
  => /\ \A a \in Produced : <<>> \notin Range(a.sources) \cup Range(a.authors)
     /\ \A i \in Written :
          log[i].file = "ahram/57831.html"
          => /\ ArticleAt(i).sources = <<Reuters, AhramOnline, Jadaliyya>>
             /\ ArticleAt(i).authors = <<>>

\* ------------------------------------------------------------------------
\* The default source of dne and the type rule
\* ------------------------------------------------------------------------

\* The document carries none of the four signals: no link in the byline
\* span, no author bio, and a first paragraph that neither starts with
\* 'By ' nor names a wire service.
NoSignal(d) ==
  /\ d.byline[1] = <<>>
  /\ d.bio = <<>>
  /\ DneAdditionalSources(FirstParagraph(d)) = <<>>
  /\ DneWireSources(FirstParagraph(d)) = <<>>

\* C11: a dne document with none of the four signals yields exactly the
\* name Daily News Egypt, and every dne Article has exactly one of authors
\* and sources non-empty: authors for Opinion, sources for News.
C11_DefaultSourceAndTypeRule ==
  publication = "dne"
  => \A i \in Written :
       LET a == ArticleAt(i)
       IN /\ NoSignal(Soup(log[i].file))
             => DneNames(a) = <<DailyNewsEgypt>>
          /\ a.type = "Opinion" => a.authors # <<>> /\ a.sources = <<>>
          /\ a.type = "News" => a.sources # <<>> /\ a.authors = <<>>
          /\ a.type \in {"Opinion", "News"}

\* C11 witness: the unsigned News document was persisted with the default
\* source, and an Opinion document was persisted with authors alone.
C11_Witness ==
  /\ publication = "dne"
  /\ \E i \in Written :
       /\ log[i].file = "dne/unsigned.html"
       /\ NoSignal(Soup(log[i].file))
       /\ ArticleAt(i).sources = <<DailyNewsEgypt>>
       /\ ArticleAt(i).authors = <<>>
  /\ \E j \in Written :
       /\ ArticleAt(j).type = "Opinion"
       /\ ArticleAt(j).authors # <<>>
       /\ ArticleAt(j).sources = <<>>

\* ------------------------------------------------------------------------
\* The structured byline and the author bio of dne
\* ------------------------------------------------------------------------

\* The document has no structured byline: no span of itemprop author, or
\* one without a link.
NoStructuredByline(d) == d.byline = <<>> \/ d.byline[1] = <<>>

\* Every other element the dne extractor requires is there and the date
\* text has the format of the publication.
DneOtherwiseComplete(d) ==
  /\ d.title # <<>> /\ d.subtitle # <<>> /\ d.crumbs # <<>>
  /\ d.content # <<>> /\ d.ogUrl # <<>>
  /\ d.dateEl # <<>> /\ strptime_matches(Strip(d.dateEl[1]), FmtDne)

\* C12: the author bio is consulted only when the document has no
\* structured byline, and a document with no structured byline still
\* completes extraction: its names start with the bio's when it has a bio,
\* and are the remaining signals' or the default otherwise.
C12_NoBylineStillCompletes ==
  publication = "dne"
  => \A i \in 1..Len(log) :
       LET d == Soup(log[i].file)
           o == log[i].outcome
       IN /\ DneOtherwiseComplete(d) /\ NoStructuredByline(d)
             => /\ o.exc = "none"
                /\ d.bio # <<>>
                   => SubSeq(DneNames(o.article), 1, Len(d.bio[1])) = d.bio[1]
                /\ d.bio = <<>> /\ NoSignal([d EXCEPT !.byline = << <<>> >>])
                   => DneNames(o.article) = <<DailyNewsEgypt>>
          /\ DneOtherwiseComplete(d) /\ ~NoStructuredByline(d)
             => /\ o.exc = "none"
                /\ DneNames(o.article)[1] = d.byline[1][1][1]

\* ------------------------------------------------------------------------
\* The derived fields
\* ------------------------------------------------------------------------

\* The blocks of a stored content: its lines.
Blocks(content) == StrSplit(content, <<NL>>)

\* C13: for every Article of every extractor, content_no_tags is the
\* stored content with the markup of each block removed, content_no_punc
\* is content_no_tags in lower case with every punctuation character but
\* the hyphen replaced by a space, and word_count is the number of words
\* of content_no_punc.
C13_DerivedFromStoredContent ==
  \A a \in Produced :
    /\ a.content_no_tags = ContentNoTags(Blocks(a.content))
    /\ a.content_no_punc = ContentNoPunc(a.content_no_tags)
    /\ a.word_count = WordCount(a.content_no_punc)

\* ------------------------------------------------------------------------
\* Tags
\* ------------------------------------------------------------------------

\* The document carries no tag marker: for dne no list item with 'Tagged
\* With:', for ahram no keyword block, for egind no tag link.
NoTagMarker(pub, d) ==
  IF pub = "dne"
  THEN \A k \in 1..Len(d.tagEls) : ~Contains(d.tagEls[k], LitTaggedWith)
  ELSE IF pub = "ahram"
  THEN d.content # <<>>
       /\ \A k \in 1..Len(d.content[1]) : ~IsSearchWord(d.content[1][k])
  ELSE d.tagEls = <<>>

\* C14: no Article carries an empty tag, a document with no tag marker
\* yields no tag at all, and so the store never holds a tag row of empty
\* name, nor a junction row for a document without a tag marker.
C14_NoEmptyTag ==
  /\ \A a \in Produced : <<>> \notin Range(a.tags)
  /\ \A i \in Written :
       NoTagMarker(publication, Soup(log[i].file))
       => /\ ArticleAt(i).tags = <<>>
          /\ \A r \in Range(db.articles) :
               r.url = ArticleAt(i).url
               => \A j \in Range(db.articles_tags) : j.fk_article # r.id
  /\ \A r \in Range(db.tags) : r.name # <<>>

====
